---- MODULE Spec2Model ----
(***************************************************************************)
(* DockerDetective: a pool of worker processes claims container images     *)
(* from the `images` table, pulls and scans each one, and ingests the scan  *)
(* report into the relational store (src/dockerhub_scanner.py).             *)
(***************************************************************************)
EXTENDS Integers, Sequences, FiniteSets, Bags, TLC

\* ------------------------------------------------------------------ bounds
NumJobs == 3        \* rows of the images table
NumWorkers == 2     \* worker processes of the pool, and tasks per round
MaxIngests == 2     \* scans committed when the ingestor is driven directly

Jobs == 1..NumJobs
Workers == 1..NumWorkers

NoJob == 0          \* Python None as an image name
NoWorker == 0       \* a row nobody holds a lock on
NULL == -1          \* SQL NULL in a numeric column
NoReport == 0       \* Python None as a scan result
NoStderr == 0       \* no CalledProcessError at hand
Stale == 0          \* a future main holds no reference to any more
Stamp == 1          \* the timestamp NOW() yields

\* Priority hints a seeded row may carry (pull_count is nullable).
PullCounts == {NULL, 2, 5, 9}

\* ------------------------------------------------------------------- state
VARIABLES
    images,                 \* committed rows of the images table, by image name
    vulnerabilities,        \* committed rows of vulnerabilities (a bag of rows)
    packages,               \* committed rows of packages (a bag of rows)
    image_vulnerabilities,  \* committed rows of image_vulnerabilities (a bag of rows)
    scan_metadata,          \* committed rows of scan_metadata (a bag of rows)
    rowLock,                \* images row -> worker whose open transaction locks it
    pc,                     \* worker process -> position in process_container
    image_name,             \* worker process -> local image_name
    stderr,                 \* worker process -> e.stderr in pull_container's handler
    scan_result,            \* worker process -> local scan_result
    tx,                     \* worker process -> uncommitted writes of its transaction
    task,                   \* worker process -> the future it is running
    queue,                  \* submitted futures no process has picked up yet
    futures,                \* the current round's futures -> state / result
    consumed,               \* futures of the round any() has already looked at
    mainpc,                 \* position of main
    store_failed            \* some Job Store call has failed in this run

store == <<images, vulnerabilities, packages, image_vulnerabilities, scan_metadata>>
tables == <<vulnerabilities, packages, image_vulnerabilities, scan_metadata>>
locals == <<pc, image_name, stderr, scan_result, tx, task>>
pool == <<queue, futures, consumed, mainpc>>
vars == <<images, vulnerabilities, packages, image_vulnerabilities, scan_metadata,
          rowLock, pc, image_name, stderr, scan_result, tx, task,
          queue, futures, consumed, mainpc, store_failed>>

NoTx == [open |-> FALSE, vulns |-> {}, pkgs |-> {}, k |-> 0]

\* A freshly seeded row: data_migration inserts only the descriptive columns,
\* the scan columns keep their defaults.
SeedRow(p) ==
    [download_status |-> "pending", is_scanned |-> FALSE, image_size |-> NULL,
     last_scanned |-> NULL, pull_count |-> p]

\* A row an earlier run has finished with.
ScannedRow(p) ==
    [download_status |-> "success", is_scanned |-> TRUE, image_size |-> NULL,
     last_scanned |-> Stamp, pull_count |-> p]

\* A row a claim has marked.
ClaimedRow(row) == [row EXCEPT !.download_status = "in_progress"]

\* -------------------------------------------------- get_unscanned_container
\* ORDER BY COALESCE(pull_count, 0) DESC
NullsFirst(p) == IF p = NULL THEN 10 ELSE p
Coalesce(p) == IF p = NULL THEN 0 ELSE p

\* FOR UPDATE SKIP LOCKED: a row locked by another open transaction is passed over.
IgnoreLocks(j, w) == TRUE
SkipLocked(j, w) == rowLock[j] \in {NoWorker, w}

\* WHERE is_scanned = FALSE AND download_status = 'pending'
UnscannedOnly(j) == images[j].is_scanned = FALSE
Eligible(j) == images[j].is_scanned = FALSE /\ images[j].download_status = "pending"

Candidates(w) == {j \in Jobs : Eligible(j) /\ SkipLocked(j, w)}

\* LIMIT 1 after the ORDER BY: a row no other candidate precedes.
First(S) == {j \in S : \A i \in S : Coalesce(images[i].pull_count) <= Coalesce(images[j].pull_count)}

\* Leaving process_container: the process is free again and the task's future,
\* if main still holds it, gets its result.
Finish(w, res) ==
    /\ pc' = [pc EXCEPT ![w] = "idle"]
    /\ image_name' = [image_name EXCEPT ![w] = NoJob]
    /\ stderr' = [stderr EXCEPT ![w] = NoStderr]
    /\ scan_result' = [scan_result EXCEPT ![w] = NoReport]
    /\ tx' = [tx EXCEPT ![w] = NoTx]
    /\ task' = [task EXCEPT ![w] = Stale]
    /\ futures' = IF task[w] # Stale THEN [futures EXCEPT ![task[w]] = res] ELSE futures
    /\ UNCHANGED <<queue, consumed, mainpc>>

\* The subquery finds and locks a row; the transaction stays open.
ClaimSelect(w) ==
    /\ pc[w] = "claim"
    /\ \E j \in First(Candidates(w)) :
        /\ rowLock' = [rowLock EXCEPT ![j] = w]
        /\ image_name' = [image_name EXCEPT ![w] = j]
    /\ pc' = [pc EXCEPT ![w] = "claim_update"]
    /\ UNCHANGED <<store, stderr, scan_result, tx, task, pool, store_failed>>

\* The UPDATE of the selected row, RETURNING its name, and the commit on
\* leaving the `with` block.
ClaimUpdate(w) ==
    /\ pc[w] = "claim_update"
    /\ images' = [images EXCEPT ![image_name[w]] = ClaimedRow(@)]
    /\ rowLock' = [rowLock EXCEPT ![image_name[w]] = IF @ = w THEN NoWorker ELSE @]
    /\ pc' = [pc EXCEPT ![w] = "pull"]
    /\ UNCHANGED <<tables, image_name, stderr, scan_result, tx, task, pool, store_failed>>

\* The subquery finds no row: the UPDATE matches nothing, fetchone() is None,
\* process_container returns False.
ClaimNone(w) ==
    /\ pc[w] = "claim"
    /\ Candidates(w) = {}
    /\ Finish(w, "false")
    /\ UNCHANGED <<store, rowLock, store_failed>>

\* psycopg2.connect or the query raises: nothing in process_container catches it.
ClaimFail(w) ==
    /\ pc[w] = "claim"
    /\ store_failed' = TRUE
    /\ Finish(w, "exc_claim")
    /\ UNCHANGED <<store, rowLock>>

\* The statement or the commit raises after the subquery has locked its row:
\* the transaction is gone, the row is as it was and nothing catches the error.
ClaimUpdateFail(w) ==
    /\ pc[w] = "claim_update"
    /\ rowLock' = [rowLock EXCEPT ![image_name[w]] = IF @ = w THEN NoWorker ELSE @]
    /\ store_failed' = TRUE
    /\ Finish(w, "exc_claim")
    /\ UNCHANGED store

\* ------------------------------------------------------------ pull_container
\* What `docker pull` may write to stderr when it exits non-zero, word by word.
StderrCatalog ==
    << <<"daemon", "manifest", "unknown">>,
       <<"unknown", "manifest">>,
       <<"timeout">> >>

\* needle in hay
Contains(needle, hay) ==
    \E i \in 1..(Len(hay) - Len(needle) + 1) : SubSeq(hay, i, i + Len(needle) - 1) = needle

AlwaysDownloadFailed(text) == "download_failed"
Classify(text) ==
    IF Contains(<<"manifest", "unknown">>, text) THEN "manifest_unknown" ELSE "download_failed"

\* update_download_status: the row as the UPDATE leaves it.
StatusOnly(row, status) == [row EXCEPT !.download_status = status]
UpdatedRow(row, status) ==
    [row EXCEPT !.download_status = status, !.is_scanned = TRUE, !.last_scanned = Stamp]

\* docker pull exits 0.
PullOk(w) ==
    /\ pc[w] = "pull"
    /\ pc' = [pc EXCEPT ![w] = "scan"]
    /\ UNCHANGED <<store, rowLock, image_name, stderr, scan_result, tx, task, pool,
                   store_failed>>

\* docker pull exits non-zero: CalledProcessError is caught.
PullFail(w) ==
    /\ pc[w] = "pull"
    /\ \E m \in 1..Len(StderrCatalog) : stderr' = [stderr EXCEPT ![w] = m]
    /\ pc' = [pc EXCEPT ![w] = "pull_failed"]
    /\ UNCHANGED <<store, rowLock, image_name, scan_result, tx, task, pool, store_failed>>

\* The handler writes the status, pull_container returns False and
\* process_container returns True.
PullFailStatus(w) ==
    /\ pc[w] = "pull_failed"
    /\ rowLock[image_name[w]] = NoWorker
    /\ images' = [images EXCEPT ![image_name[w]] =
                      UpdatedRow(@, Classify(StderrCatalog[stderr[w]]))]
    /\ Finish(w, "true")
    /\ UNCHANGED <<tables, rowLock, store_failed>>

\* update_download_status raises inside the handler: the exception leaves
\* pull_container and process_container.
PullFailStatusFail(w) ==
    /\ pc[w] = "pull_failed"
    /\ store_failed' = TRUE
    /\ Finish(w, "exc_job")
    /\ UNCHANGED <<store, rowLock>>

\* ------------------------------------------------------------ scan_container
Match(id, severity, name, fix) ==
    [id |-> id, severity |-> severity, name |-> name, version |-> "1", fix |-> fix]

\* What grype may print when it exits 0 and the output parses: the keys the
\* parsed dict has, and their values.
ReportCatalog ==
    << [keys |-> {}, imageSize |-> NULL, matches |-> <<>>],
       [keys |-> {"source", "matches"}, imageSize |-> 7,
        matches |-> <<Match("v1", "High", "p1", "fixed"), Match("v2", "Low", "p2", "not-fixed")>>],
       [keys |-> {"source", "matches"}, imageSize |-> 8,
        matches |-> <<Match("v2", "Critical", "p2", "not-fixed"), Match("v1", "High", "p1", "fixed")>>],
       [keys |-> {"matches"}, imageSize |-> NULL,
        matches |-> <<Match("v1", "High", "p1", "fixed"), Match("v1", "High", "p1", "fixed")>>],
       [keys |-> {"source", "matches"}, imageSize |-> 9,
        matches |-> <<Match("v3", "Critical", "p1", "fixed"), Match("v4", "Critical", "p2", "fixed"),
                      Match("v1", "High", "p1", "fixed"), Match("v5", "Unknown", "p2", "unknown")>>],
       [keys |-> {"source", "matches"}, imageSize |-> 7,
        matches |-> <<Match("v6", "Medium", "p1", "fixed"), Match("v7", "Negligible", "p1", "fixed"),
                      Match("v2", "Low", "p2", "not-fixed"), Match("v2", "Low", "p1", "not-fixed")>>] >>

Reports == 1..Len(ReportCatalog)

\* The reports the ingestor is driven with when transactions race.
IngestReports == 1..4

\* The reports the ingestor is driven with one call at a time.
AggregateReports == 4..Len(ReportCatalog)

\* The reports the scanner hands out in a pool run.
PoolReports == 1..3

\* `if scan_result:` None and an empty dict are both false.
Truthy(r) == r # NoReport /\ ReportCatalog[r].keys # {}

\* grype exits 0 and prints JSON.
ScanReport(w) ==
    /\ pc[w] = "scan"
    /\ \E r \in PoolReports : scan_result' = [scan_result EXCEPT ![w] = r]
    /\ pc' = [pc EXCEPT ![w] = "delete"]
    /\ UNCHANGED <<store, rowLock, image_name, stderr, tx, task, pool, store_failed>>

\* grype exits non-zero: CalledProcessError is caught, None is returned.
ScanError(w) ==
    /\ pc[w] = "scan"
    /\ scan_result' = [scan_result EXCEPT ![w] = NoReport]
    /\ pc' = [pc EXCEPT ![w] = "delete"]
    /\ UNCHANGED <<store, rowLock, image_name, stderr, tx, task, pool, store_failed>>

\* grype exits 0 and prints what json.loads rejects: the JSONDecodeError is
\* not a CalledProcessError and leaves scan_container and process_container.
ScanJunk(w) ==
    /\ pc[w] = "scan"
    /\ Finish(w, "exc_job")
    /\ UNCHANGED <<store, rowLock, store_failed>>

\* ---------------------------------------------------------- delete_container
AfterDelete(w) == IF Truthy(scan_result[w]) THEN "ingest" ELSE "scan_failed"

\* docker rmi exits 0.
DeleteOk(w) ==
    /\ pc[w] = "delete"
    /\ pc' = [pc EXCEPT ![w] = AfterDelete(w)]
    /\ UNCHANGED <<store, rowLock, image_name, stderr, scan_result, tx, task, pool,
                   store_failed>>

\* docker rmi exits non-zero: CalledProcessError is caught and logged.
DeleteError(w) ==
    /\ pc[w] = "delete"
    /\ pc' = [pc EXCEPT ![w] = AfterDelete(w)]
    /\ UNCHANGED <<store, rowLock, image_name, stderr, scan_result, tx, task, pool,
                   store_failed>>

\* ------------------------------------- process_container, scan_result is false
MarkScanFailed(w) ==
    /\ pc[w] = "scan_failed"
    /\ rowLock[image_name[w]] = NoWorker
    /\ images' = [images EXCEPT ![image_name[w]] = UpdatedRow(@, "scan_failed")]
    /\ Finish(w, "true")
    /\ UNCHANGED <<tables, rowLock, store_failed>>

\* update_download_status raises: nothing catches it.
MarkScanFailedFail(w) ==
    /\ pc[w] = "scan_failed"
    /\ store_failed' = TRUE
    /\ Finish(w, "exc_job")
    /\ UNCHANGED <<store, rowLock>>

\* ----------------------------------------------- parse_and_upload_scan_result
Report(w) == ReportCatalog[scan_result[w]]

\* scan_result.get('source', {}).get('target', {}).get('imageSize')
ImageSize(r) == IF "source" \in r.keys THEN r.imageSize ELSE NULL

\* scan_result.get('matches', [])
Matches(r) == IF "matches" \in r.keys THEN r.matches ELSE <<>>

VulnRow(m) == [vulnerability_name |-> m.id, severity |-> m.severity]
PkgRow(m) == [name |-> m.name, version |-> m.version]
IVRow(j, m) ==
    [image_id |-> j, vulnerability_name |-> m.id, name |-> m.name,
     version |-> m.version, fix_state |-> m.fix]

\* The columns of the unique constraints.
VulnKey(v) == v.vulnerability_name
PkgKey(p) == <<p.name, p.version>>
IVKey(iv) == <<iv.image_id, iv.vulnerability_name, iv.name, iv.version>>

\* d.get(k, 0)
Get(d, k) == IF k \in DOMAIN d THEN d[k] ELSE 0

\* The loop over the vulnerabilities list, one entry per match:
\* vulnerability_counts[vuln[1]] = vulnerability_counts.get(vuln[1], 0) + 1
CountEachOnce(counts, vs) == [k \in {vs[i].severity : i \in 1..Len(vs)} |-> 1]
RECURSIVE CountSeverities(_, _)
CountSeverities(counts, vs) ==
    IF vs = <<>> THEN counts
    ELSE LET label == Head(vs).severity IN
         CountSeverities([k \in DOMAIN counts \cup {label} |->
                              IF k = label THEN Get(counts, label) + 1 ELSE counts[k]],
                         Tail(vs))

\* sum(vulnerability_counts.values())
RECURSIVE SumValues(_)
SumValues(d) ==
    IF DOMAIN d = {} THEN 0
    ELSE LET k == CHOOSE x \in DOMAIN d : TRUE IN
         d[k] + SumValues([x \in DOMAIN d \ {k} |-> d[x]])

\* The vulnerabilities list the match loop builds.
VulnerabilityList(ms) == [i \in 1..Len(ms) |-> VulnRow(ms[i])]

\* vulnerability_counts.get(label, 0)
SeverityCount(label, ms) == Get(CountSeverities(<<>>, VulnerabilityList(ms)), label)

MetaRow(j, ms) ==
    [image_id |-> j,
     total_vulnerabilities |-> SumValues(CountSeverities(<<>>, VulnerabilityList(ms))),
     critical_count |-> SeverityCount("Critical", ms),
     high_count |-> SeverityCount("High", ms),
     medium_count |-> SeverityCount("Medium", ms),
     low_count |-> SeverityCount("Low", ms),
     negligible_count |-> SeverityCount("Negligible", ms),
     unknown_count |-> SeverityCount("Unknown", ms)]

IngestPcs == {"ingest", "ins_vuln", "ins_pkg", "ins_iv"}

\* The match the statement at hand is about.
Cur(w) == Matches(Report(w))[tx[w].k]

\* The open transactions whose lock or uncommitted row stands in the way of
\* the statement w is about to run: w sleeps until each of them ends.
WaitsFor(w) ==
    LET others == {u \in Workers \ {w} : tx[u].open} IN
    CASE pc[w] = "ingest" ->
            {u \in Workers \ {w} : rowLock[image_name[w]] = u}
      [] pc[w] = "ins_vuln" ->
            {u \in others : VulnKey(VulnRow(Cur(w))) \in {VulnKey(v) : v \in tx[u].vulns}}
      [] pc[w] = "ins_pkg" ->
            {u \in others : PkgKey(PkgRow(Cur(w))) \in {PkgKey(p) : p \in tx[u].pkgs}}
      [] OTHER -> {}

RECURSIVE WaitClosure(_, _)
WaitClosure(S, n) ==
    IF n = 0 THEN S ELSE WaitClosure(S \cup UNION {WaitsFor(u) : u \in S}, n - 1)

\* w is part of a cycle of waiting transactions.
Deadlocked(w) == w \in WaitClosure(WaitsFor(w), NumWorkers)

\* ON CONFLICT (...) DO NOTHING: the rows the statement adds, given the keys
\* it can see.
InsertAlways(seen, row, key) == {row}
OnConflictDoNothing(seen, row, key) == IF key \in seen THEN {} ELSE {row}

\* conn.commit() and conn.rollback(): what the table holds afterwards.
Commit(table, writes) == table (+) SetToBag(writes)
KeepWrites(table, writes) == table (+) SetToBag(writes)
Rollback(table, writes) == table

\* The loop over the rows of a statement, then the next statement.
Advance(w, nextpc) ==
    /\ pc' = IF tx[w].k < Len(Matches(Report(w))) THEN pc ELSE [pc EXCEPT ![w] = nextpc]
    /\ UNCHANGED <<image_name, stderr, scan_result, task>>

NextK(w) == IF tx[w].k < Len(Matches(Report(w))) THEN tx[w].k + 1 ELSE 1

\* psycopg2.connect and the UPDATE of the images row, which locks the row
\* until the transaction ends.
IngestBegin(w) ==
    /\ pc[w] = "ingest"
    /\ WaitsFor(w) = {}
    /\ rowLock' = [rowLock EXCEPT ![image_name[w]] = w]
    /\ tx' = [tx EXCEPT ![w] = [NoTx EXCEPT !.open = TRUE, !.k = 1]]
    /\ pc' = [pc EXCEPT ![w] = IF Matches(Report(w)) = <<>> THEN "ins_iv" ELSE "ins_vuln"]
    /\ UNCHANGED <<store, image_name, stderr, scan_result, task, pool, store_failed>>

\* psycopg2.connect raises, outside the try block.
IngestConnectFail(w) ==
    /\ pc[w] = "ingest"
    /\ store_failed' = TRUE
    /\ Finish(w, "exc_job")
    /\ UNCHANGED <<store, rowLock>>

\* INSERT INTO vulnerabilities, one row of the VALUES list.
InsertVulnerability(w) ==
    /\ pc[w] = "ins_vuln"
    /\ WaitsFor(w) = {}
    /\ tx' = [tx EXCEPT ![w].vulns =
                 @ \cup OnConflictDoNothing(
                            {VulnKey(v) : v \in BagToSet(vulnerabilities) \cup @},
                            VulnRow(Cur(w)), VulnKey(VulnRow(Cur(w)))),
                        ![w].k = NextK(w)]
    /\ Advance(w, "ins_pkg")
    /\ UNCHANGED <<store, rowLock, pool, store_failed>>

\* INSERT INTO packages, one row of the VALUES list.
InsertPackage(w) ==
    /\ pc[w] = "ins_pkg"
    /\ WaitsFor(w) = {}
    /\ tx' = [tx EXCEPT ![w].pkgs =
                 @ \cup OnConflictDoNothing(
                            {PkgKey(p) : p \in BagToSet(packages) \cup @},
                            PkgRow(Cur(w)), PkgKey(PkgRow(Cur(w)))),
                        ![w].k = NextK(w)]
    /\ Advance(w, "ins_iv")
    /\ UNCHANGED <<store, rowLock, pool, store_failed>>

\* The loop of INSERT INTO image_vulnerabilities, one statement per match:
\* each row is built from the vulnerability and the package the two CTEs
\* find among the rows the transaction can see.
RECURSIVE InsertImageVulnerabilities(_, _, _, _, _)
InsertImageVulnerabilities(own, j, ms, vs, ps) ==
    IF ms = <<>> THEN own
    ELSE LET m == Head(ms)
             row == IVRow(j, m)
             found == VulnKey(VulnRow(m)) \in vs /\ PkgKey(PkgRow(m)) \in ps
             seen == {IVKey(iv) : iv \in BagToSet(image_vulnerabilities) \cup own}
         IN InsertImageVulnerabilities(
                IF found THEN own \cup OnConflictDoNothing(seen, row, IVKey(row)) ELSE own,
                j, Tail(ms), vs, ps)

\* The row of images as the transaction's UPDATE leaves it.
IngestedRow(row, r) ==
    [row EXCEPT !.image_size = ImageSize(r), !.is_scanned = TRUE,
                !.last_scanned = Stamp, !.download_status = "success"]

\* The image_vulnerabilities statements, INSERT INTO scan_metadata and
\* conn.commit(): the transaction's writes become visible together;
\* process_container returns True.
IngestCommit(w) ==
    /\ pc[w] = "ins_iv"
    /\ images' = [images EXCEPT ![image_name[w]] = IngestedRow(@, Report(w))]
    /\ vulnerabilities' = Commit(vulnerabilities, tx[w].vulns)
    /\ packages' = Commit(packages, tx[w].pkgs)
    /\ image_vulnerabilities' =
           Commit(image_vulnerabilities,
                  InsertImageVulnerabilities({}, image_name[w], Matches(Report(w)),
                      {VulnKey(v) : v \in BagToSet(vulnerabilities) \cup tx[w].vulns},
                      {PkgKey(p) : p \in BagToSet(packages) \cup tx[w].pkgs}))
    /\ scan_metadata' = Commit(scan_metadata, {MetaRow(image_name[w], Matches(Report(w)))})
    /\ rowLock' = [rowLock EXCEPT ![image_name[w]] = NoWorker]
    /\ Finish(w, "true")
    /\ UNCHANGED store_failed

\* except Exception: conn.rollback(), the error is logged and
\* process_container returns True.
Abort(w) ==
    /\ images' = images
    /\ vulnerabilities' = Rollback(vulnerabilities, tx[w].vulns)
    /\ packages' = Rollback(packages, tx[w].pkgs)
    /\ image_vulnerabilities' = image_vulnerabilities
    /\ scan_metadata' = scan_metadata
    /\ rowLock' = [rowLock EXCEPT ![image_name[w]] = IF @ = w THEN NoWorker ELSE @]
    /\ Finish(w, "true")

\* A statement of the transaction, or the commit, raises.
IngestFail(w) ==
    /\ pc[w] \in IngestPcs
    /\ store_failed' = TRUE
    /\ Abort(w)

\* The store breaks a cycle of waiting transactions by failing the
\* statement of one of them.
IngestDeadlock(w) ==
    /\ pc[w] \in IngestPcs
    /\ Deadlocked(w)
    /\ Abort(w)
    /\ UNCHANGED store_failed

\* ------------------------------------------------------------------- main
\* futures = [executor.submit(process_container) for _ in range(NUM_PROCESSES)]
\* The futures of the round before are dropped.
Submit ==
    /\ mainpc = "submit"
    /\ queue' = [i \in 1..Len(queue) |-> Stale] \o [i \in Workers |-> i]
    /\ task' = [w \in Workers |-> Stale]
    /\ futures' = [i \in Workers |-> "pending"]
    /\ consumed' = {}
    /\ mainpc' = "collect"
    /\ UNCHANGED <<store, rowLock, pc, image_name, stderr, scan_result, tx, store_failed>>

\* any(...) meets a future whose result is True: it stops looking at the
\* round's other futures and the loop goes round again.
ResultTrue ==
    /\ mainpc = "collect"
    /\ \E i \in Workers \ consumed : futures[i] = "true"
    /\ mainpc' = "submit"
    /\ UNCHANGED <<store, rowLock, locals, queue, futures, consumed, store_failed>>

\* any(...) meets a future whose result is False; after the last one of the
\* round it returns False and the loop breaks.
ResultFalse ==
    /\ mainpc = "collect"
    /\ \E i \in Workers \ consumed :
        /\ futures[i] = "false"
        /\ consumed' = consumed \cup {i}
        /\ mainpc' = IF consumed \cup {i} = Workers THEN "break" ELSE "collect"
    /\ UNCHANGED <<store, rowLock, locals, queue, futures, store_failed>>

\* future.result() re-raises the exception of its task: it leaves any(), the
\* loop and main.
ResultRaises ==
    /\ mainpc = "collect"
    /\ \E i \in Workers \ consumed :
        /\ futures[i] \in {"exc_claim", "exc_job"}
        /\ mainpc' = futures[i]
    /\ UNCHANGED <<store, rowLock, locals, queue, futures, consumed, store_failed>>

\* Leaving the `with` block: shutdown(wait=True) returns once every submitted
\* task has run.
Shutdown ==
    /\ mainpc \in {"break", "exc_claim", "exc_job"}
    /\ queue = <<>>
    /\ \A w \in Workers : pc[w] = "idle"
    /\ mainpc' = CASE mainpc = "break" -> "exited"
                   [] mainpc = "exc_claim" -> "crashed_claim"
                   [] mainpc = "exc_job" -> "crashed_job"
    /\ UNCHANGED <<store, rowLock, locals, queue, futures, consumed, store_failed>>

\* A free worker process takes the oldest submitted task and enters
\* process_container.
TakeTask(w) ==
    /\ pc[w] = "idle"
    /\ queue # <<>>
    /\ task' = [task EXCEPT ![w] = Head(queue)]
    /\ queue' = Tail(queue)
    /\ pc' = [pc EXCEPT ![w] = "claim"]
    /\ UNCHANGED <<store, rowLock, image_name, stderr, scan_result, tx, futures, consumed,
                   mainpc, store_failed>>

\* ------------------------------------------------------------ specifications
InitLocals ==
    /\ vulnerabilities = EmptyBag
    /\ packages = EmptyBag
    /\ image_vulnerabilities = EmptyBag
    /\ scan_metadata = EmptyBag
    /\ rowLock = [j \in Jobs |-> NoWorker]
    /\ image_name = [w \in Workers |-> NoJob]
    /\ stderr = [w \in Workers |-> NoStderr]
    /\ scan_result = [w \in Workers |-> NoReport]
    /\ tx = [w \in Workers |-> NoTx]
    /\ task = [w \in Workers |-> Stale]
    /\ queue = <<>>
    /\ futures = [i \in Workers |-> "pending"]
    /\ consumed = {}
    /\ store_failed = FALSE

\* Concurrent ClaimNext calls: every worker is about to call
\* get_unscanned_container, once, against a table holding any mix of pending
\* and finished rows.
InitClaim ==
    /\ InitLocals
    /\ images \in [Jobs -> {SeedRow(p) : p \in PullCounts} \cup {ScannedRow(p) : p \in PullCounts}]
    /\ pc = [w \in Workers |-> "claim"]
    /\ mainpc = "collect"

NextClaim ==
    \E w \in Workers : ClaimSelect(w) \/ ClaimUpdate(w) \/ ClaimNone(w)

SpecClaim == InitClaim /\ [][NextClaim]_vars

\* The pool, on the seeded table: hints 5, 9, 2, then rows without one.
PoolHint(j) == LET h == <<5, 9, 2>> IN IF j <= Len(h) THEN h[j] ELSE NULL

Init ==
    /\ InitLocals
    /\ images = [j \in Jobs |-> SeedRow(PoolHint(j))]
    /\ pc = [w \in Workers |-> "idle"]
    /\ mainpc = "submit"

Pipeline(w) ==
    \/ TakeTask(w)
    \/ ClaimSelect(w) \/ ClaimUpdate(w) \/ ClaimNone(w) \/ ClaimFail(w)
    \/ ClaimUpdateFail(w)
    \/ PullOk(w) \/ PullFail(w) \/ PullFailStatus(w) \/ PullFailStatusFail(w)
    \/ ScanReport(w) \/ ScanError(w) \/ ScanJunk(w)
    \/ DeleteOk(w) \/ DeleteError(w)
    \/ MarkScanFailed(w) \/ MarkScanFailedFail(w)
    \/ IngestBegin(w) \/ IngestConnectFail(w)
    \/ InsertVulnerability(w) \/ InsertPackage(w)
    \/ IngestCommit(w) \/ IngestFail(w) \/ IngestDeadlock(w)

Next ==
    \/ Submit \/ ResultTrue \/ ResultFalse \/ ResultRaises \/ Shutdown
    \/ \E w \in Workers : Pipeline(w)

Spec == Init /\ [][Next]_vars

\* The ingestor driven directly: parse_and_upload_scan_result(scan_result,
\* image_name) is called with any report for any claimed image, again and
\* again, by concurrent workers.
CallIngest(w) ==
    /\ pc[w] = "idle"
    /\ BagCardinality(scan_metadata) + Cardinality({u \in Workers : pc[u] \in IngestPcs})
           < MaxIngests
    /\ \E j \in Jobs, r \in IngestReports :
        /\ image_name' = [image_name EXCEPT ![w] = j]
        /\ scan_result' = [scan_result EXCEPT ![w] = r]
    /\ pc' = [pc EXCEPT ![w] = "ingest"]
    /\ UNCHANGED <<store, rowLock, stderr, tx, task, pool, store_failed>>

InitIngest ==
    /\ InitLocals
    /\ images = [j \in Jobs |-> ClaimedRow(SeedRow(PoolHint(j)))]
    /\ pc = [w \in Workers |-> "idle"]
    /\ mainpc = "collect"

NextIngest ==
    \E w \in Workers :
        \/ CallIngest(w)
        \/ IngestBegin(w) \/ IngestConnectFail(w)
        \/ InsertVulnerability(w) \/ InsertPackage(w)
        \/ IngestCommit(w) \/ IngestFail(w) \/ IngestDeadlock(w)

SpecIngest == InitIngest /\ [][NextIngest]_vars

\* The ingestor driven one call at a time: parse_and_upload_scan_result is
\* called with a report for a claimed image while no other call is running.
CallAggregate(w) ==
    /\ \A u \in Workers : pc[u] = "idle"
    /\ BagCardinality(scan_metadata) < MaxIngests
    /\ \E j \in Jobs, r \in AggregateReports :
        /\ image_name' = [image_name EXCEPT ![w] = j]
        /\ scan_result' = [scan_result EXCEPT ![w] = r]
    /\ pc' = [pc EXCEPT ![w] = "ingest"]
    /\ UNCHANGED <<store, rowLock, stderr, tx, task, pool, store_failed>>

NextAggregate ==
    \E w \in Workers :
        \/ CallAggregate(w)
        \/ IngestBegin(w) \/ IngestConnectFail(w)
        \/ InsertVulnerability(w) \/ InsertPackage(w)
        \/ IngestCommit(w) \/ IngestFail(w)

SpecAggregate == InitIngest /\ [][NextAggregate]_vars

\* ------------------------------------------------------------------ claims
\* The rows that were pending when the concurrent calls began: a claim is the
\* only step that marks a row in_progress.
Backlog == {j \in Jobs : images[j].download_status \in {"pending", "in_progress"}}

\* The callers get_unscanned_container has returned a name to.
Returned == {w \in Workers : pc[w] = "pull"}

\* C1: when N concurrent get_unscanned_container calls have all returned and
\* the table held M eligible rows, min(M, N) of them returned a name (exactly
\* M when M < N), the names are pairwise distinct, and every other call
\* returned None.
C1_ExactlyBacklogClaims ==
    (\A w \in Workers : pc[w] \in {"idle", "pull"})
    => /\ Cardinality(Returned) = IF Cardinality(Backlog) < NumWorkers
                                  THEN Cardinality(Backlog) ELSE NumWorkers
       /\ \A w, u \in Returned : w # u => image_name[w] # image_name[u]
       /\ \A w \in Returned : images[image_name[w]].download_status = "in_progress"
       /\ \A w \in Workers \ Returned : image_name[w] = NoJob

\* Two callers raced for the rows: one got a name, one got None.
C1_Witness ==
    /\ \A w \in Workers : pc[w] \in {"idle", "pull"}
    /\ Cardinality(Backlog) < NumWorkers
    /\ Returned # {}
    /\ \E w \in Workers : pc[w] = "idle"

\* A worker between the return of its claim and the end of its pipeline.
Processing(w) == pc[w] \notin {"idle", "claim", "claim_update"}

\* C2: no two workers are processing the same image at the same time; a claim
\* only ever returns a row that was pending, and no row goes back to pending,
\* so no image name is returned twice in a run.
C2_ClaimedOnce ==
    /\ [](\A w, u \in Workers : (w # u /\ Processing(w) /\ Processing(u))
                                   => image_name[w] # image_name[u])
    /\ [][\A w \in Workers : (pc[w] = "claim_update" /\ pc'[w] = "pull")
              => images[image_name[w]].download_status = "pending"]_vars
    /\ [][\A j \in Jobs : images[j].download_status # "pending"
              => images'[j].download_status # "pending"]_vars

\* Two workers are processing two different images at once while a third
\* image has already been finished.
C2_Witness ==
    /\ \E w, u \in Workers : w # u /\ Processing(w) /\ Processing(u)
    /\ \E j \in Jobs : images[j].is_scanned

\* pull_count, a missing value counting as 0.
PriorityHint(j) == IF images[j].pull_count = NULL THEN 0 ELSE images[j].pull_count

\* C3: a claim that selects its row while no other claim is in flight selects
\* an eligible row whose priority hint is the maximum over all eligible rows.
C3_HighestPriorityFirst ==
    [][\A w \in Workers :
          (/\ pc[w] = "claim"
           /\ pc'[w] = "claim_update"
           /\ \A u \in Workers \ {w} : pc[u] # "claim_update")
          => /\ Eligible(image_name'[w])
             /\ \A j \in Jobs : Eligible(j) => PriorityHint(j) <= PriorityHint(image_name'[w])]_vars

\* Hints 5, 9, 2: the first claim has returned the image with hint 9.
C3_Witness ==
    /\ images[1].pull_count = 5 /\ images[2].pull_count = 9 /\ images[3].pull_count = 2
    /\ images[1].download_status = "pending"
    /\ images[2].download_status = "in_progress"
    /\ images[3].download_status = "pending"
    /\ \E w \in Workers : /\ pc[w] = "pull"
                          /\ image_name[w] = 2
                          /\ \A u \in Workers \ {w} : pc[u] = "claim"

\* The committed rows that belong to image j.
RowsOf(j) ==
    {iv \in BagToSet(image_vulnerabilities) : iv.image_id = j}
    \cup {sm \in BagToSet(scan_metadata) : sm.image_id = j}

\* Everything one ingestion of report r for image j writes is there.
FullyIngested(j, r) ==
    LET ms == Matches(ReportCatalog[r]) IN
    /\ MetaRow(j, ms) \in BagToSet(scan_metadata)
    /\ \A i \in 1..Len(ms) :
        /\ VulnKey(VulnRow(ms[i])) \in {VulnKey(v) : v \in BagToSet(vulnerabilities)}
        /\ PkgKey(PkgRow(ms[i])) \in {PkgKey(p) : p \in BagToSet(packages)}
        /\ IVKey(IVRow(j, ms[i])) \in {IVKey(iv) : iv \in BagToSet(image_vulnerabilities)}

\* C4: a call of parse_and_upload_scan_result that ends without committing
\* leaves every table, and the images row, exactly as they were; and what
\* any reader can see is never a part of an ingestion: an image is 'success'
\* only with all the rows of some report, and owns no rows otherwise.
C4_IngestAtomic ==
    /\ [][\A w \in Workers :
             (pc[w] \in IngestPcs /\ pc'[w] = "idle" /\ ~IngestCommit(w))
             => /\ images' = images
                /\ vulnerabilities' = vulnerabilities
                /\ packages' = packages
                /\ image_vulnerabilities' = image_vulnerabilities
                /\ scan_metadata' = scan_metadata]_vars
    /\ [](\A j \in Jobs :
             IF images[j].download_status = "success"
             THEN \E r \in Reports : FullyIngested(j, r)
             ELSE RowsOf(j) = {})

\* A transaction that has written its vulnerability and package rows and
\* whose next statement, an image_vulnerabilities or scan_metadata insert,
\* can fail.
C4_Witness ==
    \E w \in Workers :
        /\ pc[w] = "ins_iv"
        /\ tx[w].vulns # {} /\ tx[w].pkgs # {}
        /\ images[image_name[w]].download_status = "in_progress"
        /\ ENABLED IngestFail(w)

\* C10: a successful ingestion of a report for an image that the store
\* already holds a scan of, with that very report, adds no vulnerability, no
\* package and no image_vulnerabilities row, and adds exactly one
\* scan_metadata row.
C10_ReingestIdempotent ==
    [][\A w \in Workers :
          (IngestCommit(w) /\ FullyIngested(image_name[w], scan_result[w]))
          => /\ vulnerabilities' = vulnerabilities
             /\ packages' = packages
             /\ image_vulnerabilities' = image_vulnerabilities
             /\ BagCardinality(scan_metadata') = BagCardinality(scan_metadata) + 1
             /\ CopiesIn(MetaRow(image_name[w], Matches(Report(w))), scan_metadata') =
                CopiesIn(MetaRow(image_name[w], Matches(Report(w))), scan_metadata) + 1]_vars

\* The same report has been ingested twice for one image.
C10_Witness ==
    \E j \in Jobs, r \in Reports :
        /\ Matches(ReportCatalog[r]) # <<>>
        /\ CopiesIn(MetaRow(j, Matches(ReportCatalog[r])), scan_metadata) = 2
        /\ BagCardinality(image_vulnerabilities) =
               Cardinality({IVKey(IVRow(j, Matches(ReportCatalog[r])[i])) :
                               i \in 1..Len(Matches(ReportCatalog[r]))})

\* The status the claim expects for a failed pull, read off the logged stderr.
ExpectedStatus(text) ==
    IF \E i \in 1..(Len(text) - 1) : text[i] = "manifest" /\ text[i + 1] = "unknown"
    THEN "manifest_unknown" ELSE "download_failed"

AcquireFailed(j) == images[j].download_status \in {"manifest_unknown", "download_failed"}

\* C5: when docker pull fails and the status write goes through, the image
\* ends with is_scanned = true and download_status = manifest_unknown if the
\* stderr contains 'manifest unknown', download_failed otherwise; the worker
\* goes nowhere but out of the pipeline, and the image is never scanned,
\* ingested or written again.
C5_AcquireFailureClassified ==
    /\ [][\A w \in Workers :
             (pc[w] = "pull_failed" /\ pc'[w] # "pull_failed")
             => /\ pc'[w] = "idle"
                /\ ~PullFailStatusFail(w)
                   => /\ images'[image_name[w]].download_status =
                             ExpectedStatus(StderrCatalog[stderr[w]])
                      /\ images'[image_name[w]].is_scanned = TRUE]_vars
    /\ [][\A j \in Jobs : AcquireFailed(j) => images'[j] = images[j]]_vars
    /\ [](\A j \in Jobs : AcquireFailed(j)
             => /\ images[j].is_scanned
                /\ RowsOf(j) = {}
                /\ \A w \in Workers : image_name[w] # j)

\* One image ended manifest_unknown and another download_failed.
C5_Witness ==
    /\ \E j \in Jobs : images[j].download_status = "manifest_unknown"
    /\ \E j \in Jobs : images[j].download_status = "download_failed"

\* C6: after a successful pull, a scan that produced a report, whatever its
\* content, leads to the ingestor and never to the scan_failed write; a scan
\* that produced none leads to the scan_failed write, never to the ingestor,
\* and the write leaves the image scan_failed with is_scanned = true.
C6_ReportIsIngested ==
    /\ [][\A w \in Workers :
             (pc[w] = "delete" /\ pc'[w] # "delete")
             => pc'[w] = IF scan_result[w] # NoReport THEN "ingest" ELSE "scan_failed"]_vars
    /\ [][\A w \in Workers :
             (pc[w] = "scan_failed" /\ pc'[w] # "scan_failed" /\ ~MarkScanFailedFail(w))
             => /\ images'[image_name[w]].download_status = "scan_failed"
                /\ images'[image_name[w]].is_scanned = TRUE]_vars

\* C7: after a successful pull the cleanup step runs once, right after the
\* scan attempt whatever its outcome, and before the ingestion or the
\* scan_failed write; whether it fails or not it changes no row and the
\* pipeline goes on.
C7_CleanupAlwaysRuns ==
    /\ [][\A w \in Workers : (pc[w] = "scan" /\ pc'[w] # "scan") => pc'[w] = "delete"]_vars
    /\ [][\A w \in Workers :
             (pc[w] = "delete" /\ pc'[w] # "delete")
             => /\ pc'[w] \in {"ingest", "scan_failed"}
                /\ images' = images]_vars
    /\ [][\A w \in Workers :
             (pc'[w] \in {"ingest", "scan_failed"} /\ pc[w] # pc'[w]) => pc[w] = "delete"]_vars

\* C8: no failure of the pull, scan or ingest step of a job, and no failing
\* status write, makes process_container raise or main stop: no future holds
\* an exception of the pipeline, and main never leaves its loop through one.
C8_JobFailuresContained ==
    /\ \A i \in Workers : futures[i] # "exc_job"
    /\ mainpc \notin {"exc_job", "crashed_job"}

\* main has left its loop.
Terminated == mainpc \in {"break", "exited", "exc_claim", "exc_job", "crashed_claim", "crashed_job"}

\* C9: if no Job Store call has failed, then once main has left its loop
\* every image of the backlog has been claimed (as many claims as pending
\* rows), and it left after a round all of whose tasks returned False.
C9_PoolTermination ==
    (~store_failed /\ Terminated)
    => /\ \A j \in Jobs : images[j].download_status # "pending"
       /\ \A i \in Workers : futures[i] = "false"
       /\ mainpc \in {"break", "exited"}

\* The matches of a match list that carry a severity label.
WithSeverity(label, ms) == {i \in 1..Len(ms) : ms[i].severity = label}

\* The scan_metadata row the claim expects for image j and match list ms.
ExpectedMetaRow(j, ms) ==
    [image_id |-> j, total_vulnerabilities |-> Len(ms),
     critical_count |-> Cardinality(WithSeverity("Critical", ms)),
     high_count |-> Cardinality(WithSeverity("High", ms)),
     medium_count |-> Cardinality(WithSeverity("Medium", ms)),
     low_count |-> Cardinality(WithSeverity("Low", ms)),
     negligible_count |-> Cardinality(WithSeverity("Negligible", ms)),
     unknown_count |-> Cardinality(WithSeverity("Unknown", ms))]

\* C11: the scan_metadata row a successful ingestion writes carries, for each
\* of the six severity labels, the number of matches of the report with that
\* severity (zero when there is none), and as total the number of matches.
C11_SeverityCounts ==
    [][\A w \in Workers :
          IngestCommit(w)
          => LET row == ExpectedMetaRow(image_name[w], Matches(Report(w))) IN
             /\ CopiesIn(row, scan_metadata') = CopiesIn(row, scan_metadata) + 1
             /\ BagCardinality(scan_metadata') = BagCardinality(scan_metadata) + 1]_vars

\* A report with severities Critical, Critical, High, Unknown has been
\* ingested: critical 2, high 1, unknown 1, total 4, the others 0.
C11_Witness ==
    \E sm \in BagToSet(scan_metadata) :
        /\ sm.total_vulnerabilities = 4
        /\ sm.critical_count = 2 /\ sm.high_count = 1 /\ sm.unknown_count = 1
        /\ sm.medium_count = 0 /\ sm.low_count = 0 /\ sm.negligible_count = 0

\* At most one row per vulnerability identifier and per (name, version).
UniqueKeys ==
    /\ \A v \in BagToSet(vulnerabilities) :
           /\ CopiesIn(v, vulnerabilities) = 1
           /\ \A u \in BagToSet(vulnerabilities) : VulnKey(u) = VulnKey(v) => u = v
    /\ \A p \in BagToSet(packages) :
           /\ CopiesIn(p, packages) = 1
           /\ \A q \in BagToSet(packages) : PkgKey(q) = PkgKey(p) => q = p

\* A stored row stays as its first writer left it.
FirstWriterWins ==
    /\ \A v \in BagToSet(vulnerabilities) : v \in BagToSet(vulnerabilities')
    /\ \A p \in BagToSet(packages) : p \in BagToSet(packages')

\* An ingestion ends by its commit, or by a failure of the store itself.
RacesComplete ==
    \A w \in Workers :
        (pc[w] \in IngestPcs /\ pc'[w] = "idle")
        => (IngestCommit(w) \/ IngestFail(w) \/ IngestConnectFail(w))

\* C12: however ingestions by different workers interleave, vulnerabilities
\* holds at most one row per identifier and packages at most one per (name,
\* version), the severity stored for an identifier is the first one written
\* and never changes, and no racing ingestion is aborted.
C12_RacingIngestsComplete ==
    /\ []UniqueKeys
    /\ [][FirstWriterWins]_vars
    /\ [][RacesComplete]_vars

\* C13: process_container returns False exactly when the claim returned
\* None, and returns True on every path on which an image was claimed,
\* whatever became of the pull, the scan and the ingestion.
C13_CompletedAfterClaim ==
    [][\A w \in Workers :
          (pc[w] # "idle" /\ pc'[w] = "idle" /\ task[w] # Stale)
          => /\ Processing(w) => futures'[task[w]] = "true"
             /\ futures'[task[w]] = "false" <=> (pc[w] = "claim" /\ ClaimNone(w))]_vars

\* C14: an exception of get_unscanned_container is never dropped: the future
\* that holds it is one main still looks at, and main does not let go of it
\* (by starting another round) whatever the round's other futures hold.
C14_ClaimFailurePropagates ==
    /\ [][\A i \in Workers : futures[i] = "exc_claim" => futures'[i] = "exc_claim"]_vars
    /\ [][\A w \in Workers : (ClaimFail(w) \/ ClaimUpdateFail(w)) => task[w] # Stale]_vars

TerminalStatuses == {"success", "manifest_unknown", "download_failed", "scan_failed"}

\* An image marked in_progress that no worker is working on any more.
Abandoned(j) ==
    /\ images[j].download_status = "in_progress"
    /\ \A w \in Workers : image_name[w] # j

\* C15: download_status only ever goes from pending to in_progress, by a
\* claim, and from in_progress to success, manifest_unknown, download_failed
\* or scan_failed; a row with a terminal status is never written or claimed
\* again, and an image left in_progress by a failed ingestion or a lost
\* worker stays in_progress, unclaimed, for the rest of the run.
C15_StatusStateMachine ==
    /\ [][\A j \in Jobs :
             images'[j].download_status # images[j].download_status
             => \/ /\ images[j].download_status = "pending"
                   /\ images'[j].download_status = "in_progress"
                   /\ \E w \in Workers : image_name[w] = j /\ ClaimUpdate(w)
                \/ /\ images[j].download_status = "in_progress"
                   /\ images'[j].download_status \in TerminalStatuses]_vars
    /\ [][\A j \in Jobs :
             images[j].download_status \in TerminalStatuses
             => /\ images'[j] = images[j]
                /\ \A w \in Workers : image_name'[w] # j]_vars
    /\ [][\A j \in Jobs : Abandoned(j) => images'[j] = images[j] /\ Abandoned(j)']_vars
    /\ [][\A w \in Workers :
             (IngestFail(w) \/ IngestDeadlock(w))
             => \E j \in Jobs : j = image_name[w] /\ Abandoned(j)']_vars

\* One image succeeded, one ended with a failure status and one was left
\* in_progress, and main has started another round since.
C15_Witness ==
    /\ \E j \in Jobs : images[j].download_status = "success"
    /\ \E j \in Jobs : images[j].download_status \in TerminalStatuses \ {"success"}
    /\ \E j \in Jobs : Abandoned(j)
    /\ \E w \in Workers : pc[w] = "claim"

\* C16: the invocations of a round have all returned, and main has read all
\* their results, before it decides to stop or submits the next round: no
\* invocation of an earlier round is waiting or running beside the current
\* round's.
C16_RoundsDoNotOverlap ==
    /\ \A i \in 1..Len(queue) : queue[i] # Stale
    /\ \A w \in Workers : pc[w] # "idle" => task[w] # Stale
    /\ mainpc = "break" => consumed = Workers

\* The image_vulnerabilities rows a scan of image j with match list ms yields.
RowsOfScan(j, ms) == {IVRow(j, ms[i]) : i \in 1..Len(ms)}

\* The severity the vulnerabilities table holds for an identifier.
StoredSeverity(id, table) ==
    (CHOOSE v \in BagToSet(table) : v.vulnerability_name = id).severity

\* The rows of a scan whose vulnerability has a severity.
RowsWithSeverity(label, j, ms, table) ==
    {iv \in RowsOfScan(j, ms) : StoredSeverity(iv.vulnerability_name, table) = label}

\* The scan_metadata row derived from the rows of the scan.
DerivedMetaRow(j, ms, table) ==
    [image_id |-> j, total_vulnerabilities |-> Cardinality(RowsOfScan(j, ms)),
     critical_count |-> Cardinality(RowsWithSeverity("Critical", j, ms, table)),
     high_count |-> Cardinality(RowsWithSeverity("High", j, ms, table)),
     medium_count |-> Cardinality(RowsWithSeverity("Medium", j, ms, table)),
     low_count |-> Cardinality(RowsWithSeverity("Low", j, ms, table)),
     negligible_count |-> Cardinality(RowsWithSeverity("Negligible", j, ms, table)),
     unknown_count |-> Cardinality(RowsWithSeverity("Unknown", j, ms, table))]

\* C17: the scan_metadata row of a scan is derived from the scan's
\* image_vulnerabilities rows: its total is the number of distinct (image,
\* vulnerability, package) rows the report yields and each severity count
\* the number of those rows whose vulnerability has that severity, also for
\* a report that repeats a match; and no later ingestion modifies a row.
C17_MetadataDerivedFromRows ==
    /\ [][\A w \in Workers :
             IngestCommit(w)
             => LET row == DerivedMetaRow(image_name[w], Matches(Report(w)), vulnerabilities')
                IN CopiesIn(row, scan_metadata') = CopiesIn(row, scan_metadata) + 1]_vars
    /\ [][\A sm \in BagToSet(scan_metadata) :
             CopiesIn(sm, scan_metadata') >= CopiesIn(sm, scan_metadata)]_vars

\* C18: from a table of pending, unscanned rows, in every reachable state a
\* row has is_scanned = true exactly when its download_status is success,
\* manifest_unknown, download_failed or scan_failed; a pending or
\* in_progress row has is_scanned = false.
C18_ScannedIffTerminal ==
    \A j \in Jobs :
        /\ images[j].download_status \in TerminalStatuses \cup {"pending", "in_progress"}
        /\ images[j].is_scanned <=> images[j].download_status \in TerminalStatuses

\* The table holds a success row, a scan_failed row and an unscanned row at
\* the same time.
C18_Witness ==
    /\ \E j \in Jobs : images[j].download_status = "success" /\ images[j].is_scanned
    /\ \E j \in Jobs : images[j].download_status = "scan_failed" /\ images[j].is_scanned
    /\ \E j \in Jobs : images[j].download_status = "in_progress" /\ ~images[j].is_scanned

\* C19: when main has left its loop through the break and the pool has shut
\* down, no row is left pending and unscanned: every image of the backlog
\* has been claimed, however the workers' claims interleaved.
C19_NoPendingAtExit ==
    mainpc = "exited" => \A j \in Jobs : ~Eligible(j)

\* main and the pool are gone.
Exited == mainpc \in {"exited", "crashed_claim", "crashed_job"}

\* C20: the run does not stop before the pool has terminated, and once it
\* has, no Job Store call having failed, every image of the backlog has left
\* pending and is either at a terminal status or in_progress.
C20_TerminatesBacklogDone ==
    /\ Exited \/ ENABLED Next
    /\ (Exited /\ ~store_failed)
       => \A j \in Jobs : images[j].download_status \in TerminalStatuses \cup {"in_progress"}

====
